---- MODULE Spec2Model ----
(***************************************************************************)
(* Model of ETLGS_Postgres_gsheet_Final.py: the Google-Sheets -> BigQuery  *)
(* ETL job.  The warehouse is a map from table ids to tables; the job is   *)
(* the __main__ loop over the configured (worksheet, table) pairs, each    *)
(* pair driving load_to_bigquery through its warehouse calls.              *)
(***************************************************************************)
EXTENDS Integers, Sequences, FiniteSets, Bags, TLC

(***************************************************************************)
(* Text helpers: Python str operations on TLA+ strings.                    *)
(***************************************************************************)
LowerChars == "abcdefghijklmnopqrstuvwxyz"
UpperChars == "ABCDEFGHIJKLMNOPQRSTUVWXYZ"
DigitChars == "0123456789"

CharsOf(s) == { SubSeq(s, k, k) : k \in 1..Len(s) }

\* the character classes of the patterns
UpperSet  == CharsOf(UpperChars)
AlnumSet  == CharsOf(LowerChars) \cup CharsOf(DigitChars)
NameChars == AlnumSet \cup {"_"}
HeadChars == CharsOf(LowerChars) \cup {"_"}

Whitespace == {" ", "\t", "\n"}

\* str.lower() on one character
LowerChar(c) ==
    IF c \in UpperSet
    THEN LET k == CHOOSE n \in 1..Len(UpperChars) : SubSeq(UpperChars, n, n) = c
         IN  SubSeq(LowerChars, k, k)
    ELSE c

RECURSIVE MapChars(_, _, _)
\* s from its k-th character on, each character replaced: by its lowercase
\* form (tag "lower"), or by "_" unless it is in [a-z0-9_] (tag "col")
\* (the text is halved at each step, so long labels stay shallow)
MapChars(tag, s, k) ==
    IF k > Len(s) THEN ""
    ELSE IF k < Len(s)
    THEN LET m == (k + Len(s)) \div 2
         IN  MapChars(tag, SubSeq(s, 1, m), k) \o MapChars(tag, s, m + 1)
    ELSE LET c == SubSeq(s, k, k)
         IN  CASE tag = "lower"  -> LowerChar(c)
               [] tag = "col"    -> IF c \in NameChars
                                    THEN c ELSE "_"
               [] OTHER          -> c

\* str.lower()
Lower(s) == MapChars("lower", s, 1)

RECURSIVE LStrip(_, _)
LStrip(s, drop) ==
    IF Len(s) > 0 /\ SubSeq(s, 1, 1) \in drop
    THEN LStrip(SubSeq(s, 2, Len(s)), drop) ELSE s

RECURSIVE RStrip(_, _)
RStrip(s, drop) ==
    IF Len(s) > 0 /\ SubSeq(s, Len(s), Len(s)) \in drop
    THEN RStrip(SubSeq(s, 1, Len(s) - 1), drop) ELSE s

\* str.strip() / str.strip(chars)
Strip(s, drop) == RStrip(LStrip(s, drop), drop)

\* re.sub(r'[^a-z0-9_]', '_', s)
SubUnsafe(s) == MapChars("col", s, 1)

RECURSIVE SubRuns(_, _, _)
\* re.sub(r"[^a-z0-9]+", "_", s): every maximal run of other characters
\* becomes one underscore
SubRuns(s, k, inRun) ==
    IF k > Len(s) THEN ""
    ELSE LET c  == SubSeq(s, k, k)
             ok == c \in AlnumSet
         IN  IF ok THEN c \o SubRuns(s, k + 1, FALSE)
             ELSE (IF inRun THEN "" ELSE "_") \o SubRuns(s, k + 1, TRUE)

RECURSIVE Decimal(_)
\* str(i) for a natural number
Decimal(n) ==
    IF n < 10 THEN SubSeq(DigitChars, n + 1, n + 1)
    ELSE Decimal(n \div 10) \o SubSeq(DigitChars, (n % 10) + 1, (n % 10) + 1)

\* BigQuery's limit on the length of a column name
BQ_MAX_LEN == 300

safe_table_name(name) ==
    LET s == SubRuns(Lower(Strip(name, Whitespace)), 1, FALSE)
        t == Strip(s, {"_"})
    IN  IF t = "" THEN "sheet" ELSE t

\* lines 84-90: one raw label to its base name
SafeBase(c) ==
    LET s1 == SubUnsafe(Lower(Strip(c, Whitespace)))
        s2 == IF Len(s1) > 0 /\ SubSeq(s1, 1, 1) \in HeadChars
              THEN s1 ELSE "col_" \o s1
        s3 == IF Len(s2) > BQ_MAX_LEN THEN SubSeq(s2, 1, BQ_MAX_LEN) ELSE s2
    IN  IF s3 = "" \/ s3 = "_" THEN "col" ELSE s3

\* the suffix is appended first and the result cut to the limit afterwards
CandidateCutLast(base, i) ==
    LET whole == base \o "_" \o Decimal(i)
    IN  IF Len(whole) > BQ_MAX_LEN THEN SubSeq(whole, 1, BQ_MAX_LEN) ELSE whole

\* the base is not cut to make room for the suffix
CandidateUncut(base, i) == base \o "_" \o Decimal(i)

\* lines 94-95: the candidate with suffix _i
Candidate(base, i) ==
    LET suffix == "_" \o Decimal(i)
    IN  (IF Len(base) + Len(suffix) > BQ_MAX_LEN
         THEN SubSeq(base, 1, BQ_MAX_LEN - Len(suffix))
         ELSE base) \o suffix

RECURSIVE Resolve(_, _, _, _)
\* lines 92-96: the while loop, s the current candidate, i the next suffix
Resolve(base, s, i, seen) ==
    IF s \notin seen THEN s
    ELSE Resolve(base, Candidate(base, i), i + 1, seen)

RECURSIVE SafeCols(_, _, _)
\* lines 80-98: the for loop over the original labels
SafeCols(orig, k, new_cols) ==
    IF k > Len(orig) THEN new_cols
    ELSE LET base == SafeBase(orig[k])
             seen == { new_cols[n] : n \in 1..Len(new_cols) }
         IN  SafeCols(orig, k + 1, Append(new_cols, Resolve(base, base, 2, seen)))

\* the new column names bq_safe_columns gives a frame with these labels
bq_safe_columns(orig) == SafeCols(orig, 1, <<>>)

(***************************************************************************)
(* Cell values.  A worksheet cell is text or a number; a frame cell can    *)
(* also be null (None/NaN/NaT) or a parsed timestamp.                      *)
(***************************************************************************)
NULL   == [kind |-> "null", val |-> ""]
Str(s) == [kind |-> "str", val |-> s]
Num(s) == [kind |-> "num", val |-> s]
Ts(s)  == [kind |-> "ts", val |-> s]

\* the texts pd.to_datetime can parse
ParseableTs == {"2024-01-01"}

\* pd.to_datetime(..., errors="ignore"): what cannot be parsed is kept
ToDatetimeKeep(v) ==
    IF v.kind = "str" /\ v.val \in ParseableTs THEN Ts(v.val) ELSE v

\* line 119: pd.to_datetime(..., errors="coerce") on one cell
ToDatetime(v) ==
    IF v.kind = "str" /\ v.val \in ParseableTs THEN Ts(v.val)
    ELSE IF v.kind = "ts" THEN v
    ELSE IF v.kind = "num" THEN Ts(v.val)    \* a number is an epoch offset
    ELSE NULL

\* line 124: null stays null, anything else becomes its str()
AsStr(v) == IF v.kind = "null" THEN v ELSE Str(v.val)

\* the value None of ts_col
NoCol == ""

ColIndex(cols, c) ==
    IF \E k \in 1..Len(cols) : cols[k] = c
    THEN CHOOSE k \in 1..Len(cols) : cols[k] = c
    ELSE 0

\* lines 116-117: lower_to_actual.get("submitted_at")
TsColOf(cols) ==
    LET hits == { k \in 1..Len(cols) : Lower(cols[k]) = "submitted_at" }
    IN  IF hits = {} THEN NoCol
        ELSE cols[CHOOSE k \in hits : \A n \in hits : n <= k]

\* lines 113-124: the frame load_to_bigquery works on, from the fetched frame
Prepare(frame) ==
    LET cols == bq_safe_columns(frame.cols)
        ts   == TsColOf(cols)
    IN  [cols |-> cols,
         rows |-> [r \in 1..Len(frame.rows) |->
                     [k \in 1..Len(cols) |->
                        IF cols[k] = ts THEN ToDatetime(frame.rows[r][k])
                        ELSE AsStr(frame.rows[r][k])]]]

(***************************************************************************)
(* Warehouse tables: an ordered schema and an unordered collection (a bag)  *)
(* of rows, each row the sequence of its values in schema order.           *)
(***************************************************************************)
Field(n, t) == [name |-> n, type |-> t]
Table(schema, rows) == [exists |-> TRUE, schema |-> schema, rows |-> rows]
NoTable == [exists |-> FALSE, schema |-> <<>>, rows |-> EmptyBag]

\* the rows of a frame as a bag
BagOfSeq(rows) ==
    [r \in { rows[k] : k \in 1..Len(rows) } |->
       Cardinality({ k \in 1..Len(rows) : rows[k] = r })]

Names(schema) == [k \in 1..Len(schema) |-> schema[k].name]

\* the missing columns are added at the end and the frame is not reordered
ReconcileAppend(frame, expected_cols) ==
    LET missing == SelectSeq(expected_cols, LAMBDA c : ColIndex(frame.cols, c) = 0)
    IN  [cols |-> frame.cols \o missing,
         rows |-> [r \in 1..Len(frame.rows) |->
                     frame.rows[r] \o [k \in 1..Len(missing) |-> NULL]]]

\* lines 138-143: add the target's columns the frame lacks as None, then
\* df = df[expected_cols]
Reconcile(frame, expected_cols) ==
    [cols |-> expected_cols,
     rows |-> [r \in 1..Len(frame.rows) |->
                 [k \in 1..Len(expected_cols) |->
                    IF ColIndex(frame.cols, expected_cols[k]) = 0 THEN NULL
                    ELSE frame.rows[r][ColIndex(frame.cols, expected_cols[k])]]]]

\* lines 150-155: the staging schema
StagingSchema(expected_cols, ts) ==
    [k \in 1..Len(expected_cols) |->
       IF ts # NoCol /\ expected_cols[k] = ts
       THEN Field(expected_cols[k], "TIMESTAMP")
       ELSE Field(expected_cols[k], "STRING")]

\* a null-safe comparison (IS NOT DISTINCT FROM) in place of =
SqlEqNullSafe(a, b) == a = b

\* SQL equality: never true of a NULL
SqlEq(a, b) == a.kind # "null" /\ b.kind # "null" /\ a = b

\* lines 167-176: the MERGE statement is rejected when a table or the column
\* cdn is missing on either side, or when INSERT ROW cannot assign the source
\* columns to the target columns (it assigns them by position, so the two
\* schemas must have as many columns, with the same types)
MergeRejected(T, S) ==
    \/ ~T.exists
    \/ ~S.exists
    \/ ColIndex(Names(T.schema), "cdn") = 0
    \/ ColIndex(Names(S.schema), "cdn") = 0
    \/ T.schema[ColIndex(Names(T.schema), "cdn")].type
         # S.schema[ColIndex(Names(S.schema), "cdn")].type
    \/ Len(T.schema) # Len(S.schema)
    \/ \E k \in 1..Len(T.schema) : T.schema[k].type # S.schema[k].type

\* lines 167-173: ON T.cdn = S.cdn
Matched(T, S, s) ==
    \E t \in BagToSet(T.rows) :
        SqlEq(t[ColIndex(Names(T.schema), "cdn")],
              s[ColIndex(Names(S.schema), "cdn")])

\* lines 167-173: WHEN NOT MATCHED THEN INSERT ROW
MergeInserted(T, S) ==
    [s \in { r \in BagToSet(S.rows) : ~Matched(T, S, r) } |-> S.rows[s]]

(***************************************************************************)
(* Inputs: the configuration file and what the worksheets may hold.        *)
(***************************************************************************)
Sheet(ws, table) == [ws_name |-> ws, table_name |-> table]

\* config.json, in the iteration order of lines 196 and 202
Config ==
    << [file_name |-> "Sales",
        sheet_file |-> << Sheet("Orders", "Orders"), Sheet("Returns", " orders ") >>],
       [file_name |-> "Archive",
        sheet_file |-> << Sheet("Old orders", "ORDERS!") >>] >>

Frame(cols, rows) == [cols |-> cols, rows |-> rows]

\* what worksheet.get_all_records() may return (line 206), as header + rows
Frames ==
    { Frame(<<>>, <<>>),
      Frame(<<"Name", "CDN">>, << <<Str("A"), Str("x1")>>, <<Str("B"), Str("x2")>> >>),
      Frame(<<"Name", "CDN">>,
            << <<Str("C"), Str("x1")>>, <<Str("D"), Str("x3")>>, <<Str("E"), Str("x3")>> >>),
      Frame(<<"Name">>, << <<Str("F")>>, <<Str("F")>> >>),
      Frame(<<"Name", "CDN", "Extra Col">>, << <<Str("H"), Num("7"), Str("e")>> >>),
      Frame(<<"CDN", "Submitted At">>,
            << <<Str("x4"), Str("2024-01-01")>>, <<Str("x5"), Str("soon")>> >>) }

TargetId(table)  == safe_table_name(table)

\* the batch is loaded straight into the target
StagingIdSame(table) == safe_table_name(table)

StagingId(table) == safe_table_name(table) \o "_staging"

\* the configured (file entry, sheet entry) pairs
Pairs == UNION { { <<f, k>> : k \in 1..Len(Config[f].sheet_file) } : f \in 1..Len(Config) }

TableIds == UNION { { TargetId(Config[p[1]].sheet_file[p[2]].table_name),
                      StagingId(Config[p[1]].sheet_file[p[2]].table_name) } : p \in Pairs }

\* how many times the job is started
MaxJobs == 2

\* the tables the dataset may hold before the first job
KeyedSchema   == << Field("name", "STRING"), Field("cdn", "STRING") >>
KeylessSchema == << Field("name", "STRING") >>
StampedSchema == << Field("cdn", "STRING"), Field("submitted_at", "TIMESTAMP") >>

InitialOrders ==
    { NoTable,
      Table(KeyedSchema, EmptyBag),
      Table(KeylessSchema, EmptyBag),
      Table(StampedSchema, EmptyBag) }

VARIABLES
    pc,         \* where the job is
    fi,         \* index of the file entry being processed (line 196)
    sj,         \* index of the sheet entry being processed (line 202)
    tables,     \* the dataset: table id -> table
    df,         \* load_to_bigquery's frame
    ts_col,     \* load_to_bigquery's ts_col
    schema,     \* load_to_bigquery's staging schema (expected_cols with types)
    jobs,       \* jobs started so far
    exit,       \* how the job ended: "running", "normal", "raised"
    fatalAt,    \* the step whose exception reached the top-level handler
    attempted,  \* the pairs whose try block (line 203) was entered in this job
    result,     \* outcome of the pair at pair_end: "ok", "failed", "skipped"
    failedAt,   \* the step that raised in a failed pair
    raw,        \* the frame as the worksheet returned it (lines 206, 212)
    batch,      \* the frame as it entered reconciliation (after lines 113-124)
    pre,        \* the target table as it was when the pair began
    left,       \* a staging table with rows was there when the pair began
    lookup,     \* how get_table ended: "found", "not_found", "raised"
    staged,     \* the staging load of this pair has completed
    inserted,   \* the rows the MERGE of this pair inserted
    dropFailed  \* delete_table raised in this pair (logged at line 184)

\* bq_safe_columns taken one step of its loops at a time
VARIABLES
    npc,        \* where bq_safe_columns is: "idle", "for", "while", "done"
    orig,       \* the original labels (line 80)
    new_cols,   \* the names emitted so far (line 81); seen is their set
    at,         \* index in orig of the label the for loop is at (line 83)
    base,       \* line 91
    cand,       \* the candidate s (lines 84-95)
    sfx         \* the next suffix i (lines 92, 96)

norm == << npc, orig, new_cols, at, base, cand, sfx >>

vars == << pc, fi, sj, tables, df, ts_col, schema, jobs, exit, fatalAt, attempted,
           result, failedAt, raw, batch, pre, left, lookup, staged, inserted,
           dropFailed, norm >>

main   == << pc, fi, sj, jobs, exit, fatalAt, attempted >>
locals == << df, ts_col, schema >>
trace  == << result, failedAt, raw, batch, pre, left, lookup, staged, inserted,
             dropFailed >>

NoFrame == Frame(<<>>, <<>>)

CurSheet  == Config[fi].sheet_file[sj]
\* lines 129-130 for each configured pair
TargetOf  == [p \in Pairs |-> TargetId(Config[p[1]].sheet_file[p[2]].table_name)]
StagingOf == [p \in Pairs |-> StagingId(Config[p[1]].sheet_file[p[2]].table_name)]

CurTarget == TargetOf[<<fi, sj>>]
CurStaging == StagingOf[<<fi, sj>>]

\* bq_safe_columns is not being stepped
NormIdle ==
    /\ npc = "idle"
    /\ orig = <<>>
    /\ new_cols = <<>>
    /\ at = 0
    /\ base = ""
    /\ cand = ""
    /\ sfx = 2

Init ==
    /\ NormIdle
    /\ pc = "connect_gsheet"
    /\ fi = 0
    /\ sj = 0
    /\ \E o \in InitialOrders :
          tables = [t \in TableIds |-> IF t = "orders" THEN o ELSE NoTable]
    /\ df = NoFrame
    /\ ts_col = NoCol
    /\ schema = <<>>
    /\ jobs = 1
    /\ exit = "running"
    /\ fatalAt = ""
    /\ attempted = {}
    /\ result = ""
    /\ failedAt = ""
    /\ raw = NoFrame
    /\ batch = NoFrame
    /\ pre = NoTable
    /\ left = FALSE
    /\ lookup = ""
    /\ staged = FALSE
    /\ inserted = EmptyBag
    /\ dropFailed = FALSE

\* lines 216-218: the top-level handler logs and re-raises
Fatal(step) ==
    /\ pc' = "exit"
    /\ exit' = "raised"
    /\ fatalAt' = step
    /\ UNCHANGED << fi, sj, jobs, attempted, tables, locals, trace >>

\* lines 214-215: the pair's handler logs; the loop goes on
PairFails(step) ==
    /\ pc' = "pair_end"
    /\ result' = "failed"
    /\ failedAt' = step
    /\ UNCHANGED << fi, sj, jobs, exit, fatalAt, attempted >>

\* line 189
ConnectGsheet ==
    /\ pc = "connect_gsheet"
    /\ UNCHANGED norm
    /\ \/ /\ pc' = "connect_bigquery"
          /\ UNCHANGED << fi, sj, jobs, exit, fatalAt, attempted, tables, locals, trace >>
       \/ Fatal("connect_gsheet")

\* line 190
ConnectBigquery ==
    /\ pc = "connect_bigquery"
    /\ UNCHANGED norm
    /\ \/ /\ pc' = "load_config"
          /\ UNCHANGED << fi, sj, jobs, exit, fatalAt, attempted, tables, locals, trace >>
       \/ Fatal("connect_bigquery")

\* lines 192-196: read the configuration and enter the loop over file entries
LoadConfig ==
    /\ pc = "load_config"
    /\ UNCHANGED norm
    /\ \/ /\ IF Len(Config) = 0
             THEN pc' = "exit" /\ exit' = "normal" /\ fi' = fi
             ELSE pc' = "open_file" /\ exit' = exit /\ fi' = 1
          /\ UNCHANGED << sj, jobs, fatalAt, attempted, tables, locals, trace >>
       \/ Fatal("load_config")

\* the for statements of lines 196 and 202 taking their next item, from file
\* entry f after its sheet entry k
Advance(f, k) ==
    IF k < Len(Config[f].sheet_file)
    THEN pc' = "fetch" /\ fi' = f /\ sj' = k + 1 /\ exit' = exit
    ELSE IF f < Len(Config)
    THEN pc' = "open_file" /\ fi' = f + 1 /\ sj' = 0 /\ exit' = exit
    ELSE pc' = "exit" /\ fi' = f /\ sj' = k /\ exit' = "normal"

\* lines 197-202: gclient.open(file_name), outside the per-pair try
OpenFile ==
    /\ pc = "open_file"
    /\ UNCHANGED norm
    /\ \/ /\ Advance(fi, 0)
          /\ UNCHANGED << jobs, fatalAt, attempted, tables, locals, trace >>
       \/ Fatal("open_file")

\* no frame is taken for empty
SkipsNever(frame) == FALSE

\* lines 207-209 and 108-110: no rows, nothing to load
Skips(frame) == frame.rows = <<>>

\* lines 203-213 and 108-124: read the worksheet; an empty sheet is skipped,
\* anything else enters load_to_bigquery, which renames and coerces
Fetch ==
    /\ pc = "fetch"
    /\ UNCHANGED norm
    /\ attempted' = attempted \cup { <<fi, sj>> }
    /\ pc' \in {"pair_end", "ensure_dataset"}
    /\ pre' = tables[CurTarget]
    /\ left' = (tables[CurStaging].exists /\ tables[CurStaging].rows # EmptyBag)
    /\ UNCHANGED << fi, sj, jobs, exit, fatalAt, tables, schema,
                    lookup, staged, inserted, dropFailed >>
    /\ \/ /\ pc' = "pair_end"           \* worksheet() or get_all_records() raised
          /\ result' = "failed"
          /\ failedAt' = "fetch"
          /\ UNCHANGED << df, ts_col, raw, batch >>
       \/ \E frame \in Frames :
             /\ raw' = frame
             /\ IF Skips(frame)
                THEN /\ pc' = "pair_end"
                     /\ result' = "skipped"
                     /\ UNCHANGED << df, ts_col, batch, failedAt >>
                ELSE /\ pc' = "ensure_dataset"
                     /\ df' = Prepare(frame)
                     /\ ts_col' = TsColOf(df'.cols)
                     /\ batch' = df'
                     /\ UNCHANGED << result, failedAt >>

\* line 127
EnsureDataset ==
    /\ pc = "ensure_dataset"
    /\ UNCHANGED norm
    /\ \/ /\ pc' = "get_table"
          /\ UNCHANGED << fi, sj, jobs, exit, fatalAt, attempted, tables, locals, trace >>
       \/ /\ PairFails("ensure_dataset")
          /\ UNCHANGED << tables, locals, raw, batch, pre, left, lookup, staged, inserted,
                          dropFailed >>

\* lines 132-155: read the target's schema and align the frame with it; any
\* exception in the try block is taken to mean that the table is missing
GetTable ==
    /\ pc = "get_table"
    /\ UNCHANGED norm
    /\ pc' = "stage"
    /\ \/ /\ tables[CurTarget].exists
          /\ lookup' = "found"
          /\ df' = Reconcile(df, Names(tables[CurTarget].schema))
          /\ schema' = StagingSchema(Names(tables[CurTarget].schema), ts_col)
       \/ /\ lookup' = IF tables[CurTarget].exists THEN "raised" ELSE "not_found"
          /\ df' = df
          /\ schema' = StagingSchema(df.cols, ts_col)
    /\ UNCHANGED << fi, sj, jobs, exit, fatalAt, attempted, tables, ts_col,
                    result, failedAt, raw, batch, pre, left, staged, inserted, dropFailed >>

\* a load job with WRITE_APPEND: the rows are added to those already there
StagingAppended(old, frame, sch) == Table(sch, old.rows (+) BagOfSeq(frame.rows))

\* lines 157-164: the load job with WRITE_TRUNCATE replaces the staging table
\* old, whatever it held
StagingLoaded(old, frame, sch) == Table(sch, BagOfSeq(frame.rows))

StageLoad ==
    /\ pc = "stage"
    /\ UNCHANGED norm
    /\ \/ /\ pc' = "merge"
          /\ tables' = [tables EXCEPT ![CurStaging] =
                                         StagingLoaded(tables[CurStaging], df, schema)]
          /\ staged' = TRUE
          /\ UNCHANGED << fi, sj, jobs, exit, fatalAt, attempted, locals,
                          result, failedAt, raw, batch, pre, left, lookup, inserted,
                          dropFailed >>
       \/ /\ PairFails("stage")
          /\ UNCHANGED << tables, locals, raw, batch, pre, left, lookup, staged, inserted,
                          dropFailed >>

\* a MERGE that also has WHEN MATCHED THEN UPDATE: a matched target row is
\* replaced by the staging rows that match it
MergedUpdating(T, S) ==
    LET cdnT == ColIndex(Names(T.schema), "cdn")
        cdnS == ColIndex(Names(S.schema), "cdn")
        kept == { t \in BagToSet(T.rows) :
                    ~\E r \in BagToSet(S.rows) : SqlEq(t[cdnT], r[cdnS]) }
    IN  Table(T.schema, [t \in kept |-> T.rows[t]] (+) S.rows)

\* a merge that rebuilds the target with every column typed STRING
MergedRetyped(T, S) ==
    Table([k \in 1..Len(T.schema) |-> Field(T.schema[k].name, "STRING")],
          T.rows (+) MergeInserted(T, S))

\* lines 167-176: the target after the MERGE statement
Merged(T, S) == Table(T.schema, T.rows (+) MergeInserted(T, S))

Merge ==
    /\ pc = "merge"
    /\ UNCHANGED norm
    /\ \/ /\ ~MergeRejected(tables[CurTarget], tables[CurStaging])
          /\ pc' = "cleanup"
          /\ inserted' = MergeInserted(tables[CurTarget], tables[CurStaging])
          /\ tables' = [tables EXCEPT
                          ![CurTarget] = Merged(tables[CurTarget], tables[CurStaging])]
          /\ UNCHANGED << fi, sj, jobs, exit, fatalAt, attempted, locals,
                          result, failedAt, raw, batch, pre, left, lookup, staged,
                          dropFailed >>
       \/ /\ PairFails(IF MergeRejected(tables[CurTarget], tables[CurStaging])
                       THEN "merge_rejected"   \* BigQuery refuses the statement
                       ELSE "merge")           \* the query job fails
          /\ UNCHANGED << tables, locals, raw, batch, pre, left, lookup, staged, inserted,
                          dropFailed >>

\* lines 179-184: drop the staging table; a failure is logged, not raised
Cleanup ==
    /\ pc = "cleanup"
    /\ UNCHANGED norm
    /\ pc' = "pair_end"
    /\ result' = "ok"
    /\ \/ /\ tables' = [tables EXCEPT ![CurStaging] = NoTable]
          /\ dropFailed' = FALSE
       \/ /\ tables' = tables
          /\ dropFailed' = TRUE
    /\ UNCHANGED << fi, sj, jobs, exit, fatalAt, attempted, locals,
                    failedAt, raw, batch, pre, left, lookup, staged, inserted >>

\* lines 202 and 196: the loops take the next pair, or the job ends (line 220)
NextPair ==
    /\ pc = "pair_end"
    /\ UNCHANGED norm
    /\ Advance(fi, sj)
    /\ df' = NoFrame
    /\ ts_col' = NoCol
    /\ schema' = <<>>
    /\ result' = ""
    /\ failedAt' = ""
    /\ raw' = NoFrame
    /\ batch' = NoFrame
    /\ pre' = NoTable
    /\ left' = FALSE
    /\ lookup' = ""
    /\ staged' = FALSE
    /\ inserted' = EmptyBag
    /\ dropFailed' = FALSE
    /\ UNCHANGED << jobs, fatalAt, attempted, tables >>

\* line 186: the script is started again (it is run periodically)
Restart ==
    /\ pc = "exit"
    /\ UNCHANGED norm
    /\ jobs < MaxJobs
    /\ jobs' = jobs + 1
    /\ pc' = "connect_gsheet"
    /\ fi' = 0
    /\ sj' = 0
    /\ exit' = "running"
    /\ fatalAt' = ""
    /\ attempted' = {}
    /\ UNCHANGED << tables, locals, trace >>

Next ==
    \/ ConnectGsheet
    \/ ConnectBigquery
    \/ LoadConfig
    \/ OpenFile
    \/ Fetch
    \/ EnsureDataset
    \/ GetTable
    \/ StageLoad
    \/ Merge
    \/ Cleanup
    \/ NextPair
    \/ Restart

Spec == Init /\ [][Next]_vars

(***************************************************************************)
(* bq_safe_columns on its own (lines 69-105), one loop step per action.    *)
(***************************************************************************)
MaxLabels == 3

RECURSIVE Repeat(_, _)
Repeat(c, n) ==
    IF n = 0 THEN ""
    ELSE IF n % 2 = 1 THEN c \o Repeat(c, n - 1)
    ELSE LET h == Repeat(c, n \div 2) IN h \o h

\* raw labels: empty, blank, a symbol, a repeated header, a leading digit,
\* one label over the limit and one of exactly the limit that ends in _2
Labels ==
    { "", " ", "-", "Submitted At", "9 lives",
      Repeat("x", BQ_MAX_LEN + 1), Repeat("x", BQ_MAX_LEN - 2) \o "_2" }

LabelLists == UNION { [1..n -> Labels] : n \in 0..MaxLabels }

\* lines 80-82
InitNorm ==
    /\ npc = "for"
    /\ orig \in LabelLists
    /\ new_cols = <<>>
    /\ at = 0
    /\ base = ""
    /\ cand = ""
    /\ sfx = 2
    /\ pc = "bq_safe_columns"
    /\ fi = 0
    /\ sj = 0
    /\ tables = [t \in TableIds |-> NoTable]
    /\ df = NoFrame
    /\ ts_col = NoCol
    /\ schema = <<>>
    /\ jobs = 1
    /\ exit = "running"
    /\ fatalAt = ""
    /\ attempted = {}
    /\ result = ""
    /\ failedAt = ""
    /\ raw = NoFrame
    /\ batch = NoFrame
    /\ pre = NoTable
    /\ left = FALSE
    /\ lookup = ""
    /\ staged = FALSE
    /\ inserted = EmptyBag
    /\ dropFailed = FALSE

\* line 82 and 97: seen holds exactly the names emitted
seen == { new_cols[k] : k \in 1..Len(new_cols) }

\* the loop cannot go past this many suffixes (C20)
MaxSuffix == MaxLabels + 4

job == << main, tables, locals, trace >>

\* lines 83-92: the for loop takes the next label
NormTake ==
    /\ npc = "for"
    /\ at < Len(orig)
    /\ at' = at + 1
    /\ base' = SafeBase(orig[at + 1])
    /\ cand' = base'
    /\ sfx' = 2
    /\ npc' = "while"
    /\ UNCHANGED << orig, new_cols, job >>

\* lines 93-96: the candidate is taken, try the next suffix
NormRetry ==
    /\ npc = "while"
    /\ cand \in seen
    /\ sfx < MaxSuffix
    /\ cand' = Candidate(base, sfx)
    /\ sfx' = sfx + 1
    /\ UNCHANGED << npc, orig, new_cols, at, base, job >>

\* lines 97-98: the candidate is free
NormEmit ==
    /\ npc = "while"
    /\ cand \notin seen
    /\ new_cols' = Append(new_cols, cand)
    /\ npc' = "for"
    /\ UNCHANGED << orig, at, base, cand, sfx, job >>

\* lines 100-105: the for loop is over, the renamed frame is returned
NormReturn ==
    /\ npc = "for"
    /\ at = Len(orig)
    /\ npc' = "done"
    /\ UNCHANGED << orig, new_cols, at, base, cand, sfx, job >>

NextNorm ==
    \/ NormTake
    \/ NormRetry
    \/ NormEmit
    \/ NormReturn

SpecNorm == InitNorm /\ [][NextNorm]_vars

(***************************************************************************)
(* Properties.                                                             *)
(***************************************************************************)
TargetIds == { TargetId(Config[p[1]].sheet_file[p[2]].table_name) : p \in Pairs }

KeyIdx(T) == ColIndex(Names(T.schema), "cdn")
HasKey(T) == T.exists /\ KeyIdx(T) # 0

\* the rows of T whose cdn is k, as a bag
RowsWithKey(T, k) ==
    [r \in { t \in BagToSet(T.rows) : t[KeyIdx(T)] = k } |-> T.rows[r]]

\* the non-null cdn values of the batch that entered load_to_bigquery
BatchKeys ==
    IF ColIndex(batch.cols, "cdn") = 0 THEN {}
    ELSE { batch.rows[r][ColIndex(batch.cols, "cdn")] : r \in 1..Len(batch.rows) } \ {NULL}

\* the pair has ended, load_to_bigquery was called with a non-empty batch, and
\* none of the services failed on it: every call went through, or BigQuery
\* refused the MERGE statement itself
RanThrough ==
    /\ pc = "pair_end"
    /\ batch # NoFrame
    /\ lookup \in {"found", "not_found"}
    /\ result = "ok" \/ failedAt = "merge_rejected"

\* C1: no two rows of a target table share the same non-null value of cdn,
\* at any time, whatever batches the runs loaded.
C1_NoDuplicateKeys ==
    \A t \in TargetIds :
        HasKey(tables[t]) =>
            \A r \in BagToSet(tables[t].rows) :
                r[KeyIdx(tables[t])] # NULL =>
                    BagCardinality(RowsWithKey(tables[t], r[KeyIdx(tables[t])])) = 1

\* C2: first-write-wins: when a run whose batch carried keys has ended
\* (against a target that was missing or had the cdn column), it ended without
\* an error and, for every key of its batch, the target holds exactly one row
\* with that key, which is the row the target already held if it held one.
C2_FirstWriteWins ==
    (RanThrough /\ BatchKeys # {} /\ (pre.exists => HasKey(pre))) =>
        /\ result = "ok"
        /\ HasKey(tables[CurTarget])
        /\ \A k \in BatchKeys :
              /\ BagCardinality(RowsWithKey(tables[CurTarget], k)) = 1
              /\ (HasKey(pre) /\ RowsWithKey(pre, k) # EmptyBag) =>
                    RowsWithKey(tables[CurTarget], k) = RowsWithKey(pre, k)

\* C3: lazy creation: a run that found no target table ends without an error,
\* with the target existing, its schema the batch's normalized columns in
\* batch order and its rows the batch's rows.
C3_LazyCreation ==
    (RanThrough /\ ~pre.exists) =>
        /\ result = "ok"
        /\ tables[CurTarget].exists
        /\ Names(tables[CurTarget].schema) = batch.cols
        /\ tables[CurTarget].rows = BagOfSeq(batch.rows)

\* C4: append without key: when neither the target nor the batch has a cdn
\* column, the run succeeds and raises the target's row count by the number
\* of rows of the batch.
C4_AppendWithoutKey ==
    (RanThrough /\ pre.exists /\ ~HasKey(pre) /\ ColIndex(batch.cols, "cdn") = 0) =>
        /\ result = "ok"
        /\ BagCardinality(tables[CurTarget].rows)
             = BagCardinality(pre.rows) + Len(batch.rows)

\* the columns of the batch that the target, as the run found it, lacks
NewCols == { batch.cols[k] : k \in 1..Len(batch.cols) }
              \ { pre.schema[k].name : k \in 1..Len(pre.schema) }

\* C5: schema widening: when a run against an existing target has succeeded,
\* every column of its batch that the target lacked was kept by the run,
\* placed after all the stored columns, and is part of the target schema.
C5_SchemaWidening ==
    (RanThrough /\ result = "ok" /\ pre.exists) =>
        \A c \in NewCols :
            /\ ColIndex(df.cols, c) > Len(pre.schema)
            /\ ColIndex(Names(tables[CurTarget].schema), c) # 0

\* C6: staging is disposed: at the end of a run that loaded the staging
\* table, the staging table is gone, or its deletion was attempted and the
\* failure was logged without failing the run.
C6_StagingDisposed ==
    (pc = "pair_end" /\ staged) =>
        \/ ~tables[CurStaging].exists
        \/ dropFailed /\ result = "ok"

\* C7: per-pair failure isolation: once the clients and the configuration
\* were obtained, the job ends only after every configured pair was taken up.
C7_PairIsolation ==
    (pc = "exit" /\ fatalAt \notin {"connect_gsheet", "connect_bigquery", "load_config"})
        => attempted = Pairs

\* C8: insert-only merge: no step of the job removes or changes a row of a
\* target table; the bag of its rows only grows.
C8_InsertOnly ==
    [][\A t \in TargetIds :
          tables[t].exists =>
              /\ tables'[t].exists
              /\ tables[t].rows \sqsubseteq tables'[t].rows]_vars

\* the MERGE has run on a batch that carries a key the target already held,
\* in a row with other values, and the target's row is still there
C8_Witness ==
    /\ pc = "cleanup"
    /\ HasKey(pre)
    /\ \E t \in BagToSet(pre.rows), r \in 1..Len(df.rows) :
          /\ SqlEq(t[KeyIdx(pre)], df.rows[r][ColIndex(df.cols, "cdn")])
          /\ t # df.rows[r]
          /\ BagIn(t, tables[CurTarget].rows)

\* the rows of the reconciled batch whose cdn is null
NullKeyRows ==
    { df.rows[r] : r \in { n \in 1..Len(df.rows) :
                             df.rows[n][ColIndex(df.cols, "cdn")] = NULL } }

\* C9: rows without a key are never deduplicated: when the MERGE has run,
\* every batch row with a null cdn is in the target once more per copy in
\* the batch than before the run.
C9_NullKeysInserted ==
    pc = "cleanup" =>
        \A row \in NullKeyRows :
            CopiesIn(row, tables[CurTarget].rows)
              = CopiesIn(row, pre.rows) + CopiesIn(row, BagOfSeq(df.rows))

\* the MERGE has run on a batch with two null-cdn rows while the target
\* already held a row with a null cdn
C9_Witness ==
    /\ pc = "cleanup"
    /\ \E row \in NullKeyRows : CopiesIn(row, BagOfSeq(df.rows)) >= 2
    /\ \E t \in BagToSet(pre.rows) : t[KeyIdx(pre)] = NULL

IsPrefix(s, t) == Len(s) <= Len(t) /\ \A k \in 1..Len(s) : s[k] = t[k]

\* C10: schema append-only: at the end of a run the target still exists and
\* the schema it had when the run began (the schema the previous run left) is
\* a prefix of its schema, names and types alike.
C10_SchemaAppendOnly ==
    (pc = "pair_end" /\ pre.exists) =>
        /\ tables[CurTarget].exists
        /\ IsPrefix(pre.schema, tables[CurTarget].schema)

\* a later run of a job has merged, into the target the runs before it
\* left, a batch whose columns differ from the target's
C10_Witness ==
    /\ pc = "pair_end"
    /\ result = "ok"
    /\ pre.exists
    /\ << fi, sj >> # << 1, 1 >>
    /\ batch.cols # Names(pre.schema)
    /\ tables[CurTarget].rows # pre.rows

(***************************************************************************)
(* Properties of bq_safe_columns, checked under SpecNorm.                  *)
(***************************************************************************)
\* [a-z_][a-z0-9_]* of length at most 300
ValidName(n) ==
    /\ Len(n) >= 1
    /\ Len(n) <= BQ_MAX_LEN
    /\ SubSeq(n, 1, 1) \in HeadChars
    /\ \A k \in 1..Len(n) : SubSeq(n, k, k) \in NameChars

\* n is what the label c may be emitted as: its base or the base suffixed
EmittedFor(c, n) ==
    \/ n = SafeBase(c)
    \/ \E i \in 2..MaxSuffix : n = Candidate(SafeBase(c), i)

\* C11: for every list of N raw labels bq_safe_columns returns N names in
\* the same positions, each lowercase and matching [a-z_][a-z0-9_]*, of
\* length at most 300, and pairwise distinct.
C11_NormalizerValid ==
    npc = "done" =>
        /\ Len(new_cols) = Len(orig)
        /\ \A k \in 1..Len(new_cols) :
              /\ ValidName(new_cols[k])
              /\ EmittedFor(orig[k], new_cols[k])
        /\ \A j, k \in 1..Len(new_cols) : j # k => new_cols[j] # new_cols[k]

\* a repeated label over the limit and an empty label went through
C11_Witness ==
    /\ npc = "done"
    /\ \E j, k \in 1..Len(orig) :
          j < k /\ orig[j] = orig[k] /\ Len(orig[k]) > BQ_MAX_LEN
    /\ \E k \in 1..Len(orig) : orig[k] = ""

\* the label is empty, blank, or sanitizes to the single character _
EmptyLike(c) ==
    LET t == Strip(c, Whitespace)
    IN  t = "" \/ SubUnsafe(Lower(t)) = "_"

\* C12: a raw label that is empty, only whitespace, or that sanitizes to the
\* single character _ is emitted as col, with a numeric suffix only on
\* collision.
C12_EmptyLabelIsCol ==
    npc = "done" =>
        \A k \in 1..Len(orig) :
            EmptyLike(orig[k]) =>
                \/ new_cols[k] = "col"
                \/ \E i \in 2..MaxSuffix : new_cols[k] = "col_" \o Decimal(i)

PastFetch ==
    /\ pc \in {"ensure_dataset", "get_table", "stage", "merge", "cleanup", "pair_end"}
    /\ failedAt # "fetch"

\* C13: when the fetched batch is empty no later stage runs for the pair: no
\* schema read, staging load, merge or table deletion is issued, the target
\* is unchanged, and processing continues with the next pair.
C13_EmptyBatchNoOp ==
    (PastFetch /\ raw.rows = <<>>) =>
        /\ pc = "pair_end"
        /\ result = "skipped"
        /\ lookup = ""
        /\ ~staged
        /\ inserted = EmptyBag
        /\ ~dropFailed
        /\ tables[CurTarget] = pre
        /\ left => tables[CurStaging].exists
        /\ exit = "running"
        /\ ENABLED NextPair

\* an empty batch came for a target with rows while a staging table was left
C13_Witness ==
    /\ pc = "pair_end"
    /\ result = "skipped"
    /\ pre.exists
    /\ pre.rows # EmptyBag
    /\ left

\* the text of a cell that pd.to_datetime cannot parse
Unparsable(v) == v.kind = "str" /\ v.val \notin ParseableTs

\* C14: for a batch with a submitted_at column, a row whose submitted_at
\* cannot be parsed gets a null timestamp, no row is dropped by the coercion,
\* and the staging load receives as many rows as the batch has.
C14_NullSafeCoercion ==
    (PastFetch /\ ts_col # NoCol) =>
        LET k == ColIndex(batch.cols, ts_col)
        IN  /\ Len(batch.rows) = Len(raw.rows)
            /\ Len(df.rows) = Len(raw.rows)
            /\ \A r \in 1..Len(raw.rows) :
                  /\ Unparsable(raw.rows[r][k]) => batch.rows[r][k] = NULL
                  /\ batch.rows[r][k].kind \in {"ts", "null"}
            /\ pc = "merge" =>
                  BagCardinality(tables[CurStaging].rows) = Len(raw.rows)

\* a batch with an unparsable submitted_at has been loaded into staging
C14_Witness ==
    /\ pc = "merge"
    /\ ts_col # NoCol
    /\ \E r \in 1..Len(raw.rows) : Unparsable(raw.rows[r][ColIndex(batch.cols, ts_col)])

\* C15: against an existing target, the reconciled batch lists the target
\* schema's columns in the stored order; a column the batch lacks is null in
\* every row, the others keep the batch's values.
C15_Reconciled ==
    lookup = "found" =>
        /\ df.cols = Names(pre.schema)
        /\ Len(df.rows) = Len(batch.rows)
        /\ \A r \in 1..Len(df.rows) :
              /\ Len(df.rows[r]) = Len(df.cols)
              /\ \A k \in 1..Len(df.cols) :
                    df.rows[r][k] =
                        IF ColIndex(batch.cols, df.cols[k]) = 0 THEN NULL
                        ELSE batch.rows[r][ColIndex(batch.cols, df.cols[k])]

\* the batch lacked a column of the target and had its columns in another order
C15_Witness ==
    /\ pc = "stage"
    /\ lookup = "found"
    /\ \E k \in 1..Len(df.cols) : ColIndex(batch.cols, df.cols[k]) = 0
    /\ \E k \in 1..Len(df.cols) : ColIndex(batch.cols, df.cols[k]) \notin {0, k}

\* C16: right after the staging load the staging table holds exactly the
\* rows of the run's reconciled batch, also when an earlier run left a
\* staging table with rows behind.
C16_StagingOverwritten ==
    pc = "merge" => tables[CurStaging] = Table(schema, BagOfSeq(df.rows))

\* the load has run over a staging table that an earlier run left behind
C16_Witness ==
    /\ pc = "merge"
    /\ staged
    /\ left

\* C17: while a run has not executed its merge statement, also when it has
\* failed before or during the staging load, the target's rows and schema
\* are what they were before the run.
C17_StagingIsolatesTarget ==
    (\/ pc \in {"ensure_dataset", "get_table", "stage", "merge"}
     \/ pc = "pair_end" /\ failedAt \in {"fetch", "ensure_dataset", "stage", "merge_rejected"})
        => tables[CurTarget] = pre

\* the staging load failed on a target that has rows
C17_Witness ==
    /\ pc = "pair_end"
    /\ failedAt = "stage"
    /\ pre.exists
    /\ pre.rows # EmptyBag

\* C18: the job ends by re-raising exactly when obtaining the sheets client,
\* the warehouse client or the configuration failed.
C18_ExitStatus ==
    pc = "exit" =>
        (exit = "raised" <=> fatalAt \in {"connect_gsheet", "connect_bigquery", "load_config"})

\* C19: in a run against an existing target the staging schema gives each
\* column the type the target schema gives it.
C19_TypeAgreement ==
    (lookup = "found" /\ pc \in {"stage", "merge", "cleanup", "pair_end"}) =>
        /\ Len(schema) = Len(pre.schema)
        /\ \A k \in 1..Len(schema) : schema[k].type = pre.schema[k].type
====
